---- MODULE Spec2Model ----
(***************************************************************************)
(* Model of src/ambianic/webapp/server/timeline_dao.py: get_timeline, the  *)
(* pagination walk over the timeline-event-log.yaml* segment files, and    *)
(* _remove_timeline, the clean-up of segments that fail to decode.         *)
(*                                                                         *)
(* The data directory is the variable fs: one entry per segment name.      *)
(* Segment names are the integers 1..MaxFiles, their order is the          *)
(* lexicographic order of the file names.  A record is the pair            *)
(* <<segment, position>>; the engine never looks inside a record.          *)
(*                                                                         *)
(* Two specifications share the operators that model the code:             *)
(*   Spec      one caller, every call runs to completion (a call is one    *)
(*             action); the sequential behaviour of get_timeline.          *)
(*   SpecRace  NumCallers callers whose calls interleave at the file       *)
(*             system operations (listing, reading one segment).           *)
(* The external writer of the segments is not part of the source: no       *)
(* action appends to or creates a segment.                                 *)
(***************************************************************************)
EXTENDS Integers, Sequences, FiniteSets, TLC

\* ---- bounds of the model --------------------------------------------------
MaxFiles == 2
MaxSegLen == 7
MaxPage == 4
RaceSegLen == 3
RacePage == 2
NumCallers == 2

\* ---- program constants ----------------------------------------------------
page_size == 5

\* the exception classes the except clause of the segment loop names
CaughtErrors == {"ReaderError", "ScannerError", "ComposerError", "ConstructorError"}

\* the classes yaml.safe_load raises on undecodable content: the four above
\* and yaml.parser.ParserError (grammar errors such as an unclosed "[")
DecodeErrors == CaughtErrors \cup {"ParserError"}

Names == 1..MaxFiles
Callers == 1..NumCallers
DataDirs == {"None", "missing", "valid"}

VARIABLES fs, last, prev, pc, loc

vars == <<fs, last, prev, pc, loc>>

\* ---- the file system ------------------------------------------------------
Absent == [present |-> FALSE, err |-> "none", n |-> 0]

Segment(n) == [present |-> TRUE, err |-> "none", n |-> n]

Corrupt(e) == [present |-> TRUE, err |-> e, n |-> 0]

\* the undecodable contents the initial catalogs draw from: one class the
\* except clause names and the one it does not
InitErrors == {"ScannerError", "ParserError"}

Contents(maxLen) ==
  {Absent} \cup {Segment(n) : n \in 0..maxLen} \cup {Corrupt(e) : e \in InitErrors}

Catalogs(maxLen) == [Names -> Contents(maxLen)]

\* yaml.safe_load on a decodable segment: its records, oldest first
Records(f, n) == [i \in 1..n |-> <<f, i>>]

RECURSIVE Ascending(_)
Ascending(S) ==
  IF S = {} THEN <<>>
  ELSE LET m == CHOOSE x \in S : \A y \in S : x <= y
       IN <<m>> \o Ascending(S \ {m})

\* Path(data_dir).glob(...) followed by sorted(files, reverse=False)
ListFiles(disk) == Ascending({f \in Names : disk[f].present})

\* os.remove inside try/except: a failure (file already gone) is logged only
_remove_timeline(disk, f) ==
  IF disk[f].present THEN [disk EXCEPT ![f] = Absent] ELSE disk

\* ---- the walk state of one call -------------------------------------------
NoCall ==
  [page |-> 0, data_dir |-> "None", page_start_position |-> 0,
   page_end_position |-> 0, page_count |-> 0, events_queue |-> <<>>,
   timeline_events |-> <<>>, visited |-> {}, status |-> "none",
   result |-> <<>>, exc |-> "none"]

\* lines 43-74: the window of the page and the empty walk state
StartWalk(page, data_dir) ==
  [NoCall EXCEPT !.page = page, !.data_dir = data_dir,
                 !.page_start_position = (page - 1) * page_size,
                 !.page_end_position = (page - 1) * page_size + page_size,
                 !.page_count = 1, !.status = "walking"]

Raise(st, e) == [st EXCEPT !.status = "raised", !.exc = e]

Return(st, r) == [st EXCEPT !.status = "returned", !.result = r]

\* python s[start:stop:-1] (0-based, negative indices count from the end)
PySliceRev(s, start, stop) ==
  LET n == Len(s)
      Norm(i) == IF i < 0 THEN (IF i + n < 0 THEN -1 ELSE i + n)
                 ELSE (IF i >= n THEN n - 1 ELSE i)
      hi == Norm(start)
      lo == Norm(stop)
  IN IF hi <= lo THEN <<>> ELSE [k \in 1..(hi - lo) |-> s[hi - k + 2]]

\* line 82: timeline_events += events_queue
Merge(segment_events, events_queue) == segment_events \o events_queue

RemainderAll(timeline_events, pages_mod) == timeline_events

\* line 99: events_queue = timeline_events[0:pages_mod]
Remainder(timeline_events, pages_mod) == SubSeq(timeline_events, 1, pages_mod)

\* lines 97-105: the window reaches further than the merged events
Advance(st, timeline_events) ==
  LET events_len == Len(timeline_events)
      pages_mod == events_len % page_size
      shift == IF pages_mod > 0 THEN pages_mod ELSE 0
  IN [st EXCEPT
        !.events_queue = IF pages_mod > 0 THEN Remainder(timeline_events, pages_mod)
                         ELSE <<>>,
        !.page_start_position = @ + shift - events_len,
        !.page_end_position = @ + shift - events_len,
        !.page_count = @ + 1]

\* lines 109-117: the window lies inside the merged events
Slice(st, timeline_events) ==
  IF st.page_start_position >= Len(timeline_events) THEN Return(st, <<>>)
  ELSE Return(st, PySliceRev(timeline_events,
                             -1 * st.page_start_position - 1,
                             -1 * st.page_end_position - 1))

DropQueueOnFailure(st) == [st EXCEPT !.events_queue = <<>>]

\* lines 89-91: the walk state after a caught decode error (continue)
OnDecodeFailure(st) == st

\* lines 78-117: one iteration of the segment loop on file f with content c;
\* remove tells whether _remove_timeline is called
LoopBody(st, f, c) ==
  LET seen == [st EXCEPT !.visited = @ \cup {f}] IN
  IF ~c.present THEN [st |-> Raise(seen, "FileNotFoundError"), remove |-> FALSE]
  ELSE IF c.err \in CaughtErrors THEN [st |-> OnDecodeFailure(seen), remove |-> TRUE]
  ELSE IF c.err # "none" THEN [st |-> Raise(seen, c.err), remove |-> FALSE]
  ELSE LET timeline_events == Merge(Records(f, c.n), st.events_queue)
           merged == [seen EXCEPT !.timeline_events = timeline_events]
       IN [st |-> IF Len(timeline_events) < st.page_end_position
                  THEN Advance(merged, timeline_events)
                  ELSE Slice(merged, timeline_events),
           remove |-> FALSE]

\* lines 119-125: after the last file
AfterLoop(st) ==
  IF st.page_count + 1 < st.page
  THEN Return([st EXCEPT !.page_count = @ + 1], <<>>)
  ELSE Return([st EXCEPT !.page_count = @ + 1], st.events_queue)

\* lines 39-45: the checks before the walk; "walking" when they pass
Enter(page, data_dir) ==
  IF data_dir # "valid" THEN Return([NoCall EXCEPT !.page = page, !.data_dir = data_dir], <<>>)
  ELSE IF page <= 0
       THEN Raise([NoCall EXCEPT !.page = page, !.data_dir = data_dir], "AssertionError")
       ELSE StartWalk(page, data_dir)

RECURSIVE Walk(_, _, _)
\* lines 77-125 run without interruption
Walk(st, files, disk) ==
  IF st.status # "walking" THEN [st |-> st, fs |-> disk]
  ELSE IF files = <<>> THEN [st |-> AfterLoop(st), fs |-> disk]
  ELSE LET f == Head(files)
           r == LoopBody(st, f, disk[f])
       IN Walk(r.st, Tail(files), IF r.remove THEN _remove_timeline(disk, f) ELSE disk)

\* one whole call: the final walk state and the file system it leaves
get_timeline(page, data_dir, disk) ==
  Walk(Enter(page, data_dir), ListFiles(disk), disk)

\* ---- Spec: sequential calls -----------------------------------------------
NoPrev == [page |-> 0, data_dir |-> "None", st |-> NoCall, removed |-> FALSE]

NoLast == [st |-> NoCall, fs0 |-> [f \in Names |-> Absent]]

Init ==
  /\ fs \in Catalogs(MaxSegLen)
  /\ last = NoLast
  /\ prev = NoPrev
  /\ pc = [c \in Callers |-> "idle"]
  /\ loc = [c \in Callers |-> [st |-> NoCall, files |-> <<>>]]

\* a caller runs get_timeline(page=page, data_dir=data_dir) to completion;
\* last keeps the call and the catalog it started from, prev the call
\* before it when that was a page 1 call
Call(page, data_dir) ==
  LET r == get_timeline(page, data_dir, fs) IN
  /\ fs' = r.fs
  /\ prev' = IF last.st.status # "none" /\ last.st.page = 1
             THEN [page |-> 1, data_dir |-> last.st.data_dir, st |-> last.st,
                   removed |-> last.fs0 # fs]
             ELSE NoPrev
  /\ last' = [st |-> r.st, fs0 |-> fs]
  /\ UNCHANGED <<pc, loc>>

Next == \E page \in 0..MaxPage, data_dir \in DataDirs : Call(page, data_dir)

Spec == Init /\ [][Next]_vars

\* ---- SpecRace: interleaved calls ------------------------------------------
InitRace ==
  /\ fs \in Catalogs(RaceSegLen)
  /\ last = NoLast
  /\ prev = NoPrev
  /\ pc = [c \in Callers |-> "idle"]
  /\ loc = [c \in Callers |-> [st |-> NoCall, files |-> <<>>]]

\* lines 39-74: the checks, the window and the listing of the catalog
Begin(c, page, data_dir) ==
  LET st == Enter(page, data_dir) IN
  /\ pc[c] = "idle"
  /\ loc' = [loc EXCEPT ![c] = [st |-> st,
                                files |-> IF st.status = "walking" THEN ListFiles(fs)
                                          ELSE <<>>]]
  /\ pc' = [pc EXCEPT ![c] = IF st.status = "walking" THEN "walking" ELSE "done"]
  /\ UNCHANGED <<fs, last, prev>>

\* lines 77-117: one iteration of the loop on the next listed file
Step(c) ==
  /\ pc[c] = "walking"
  /\ loc[c].files # <<>>
  /\ LET f == Head(loc[c].files)
         r == LoopBody(loc[c].st, f, fs[f])
     IN /\ loc' = [loc EXCEPT ![c] = [st |-> r.st, files |-> Tail(loc[c].files)]]
        /\ fs' = IF r.remove THEN _remove_timeline(fs, f) ELSE fs
        /\ pc' = [pc EXCEPT ![c] = IF r.st.status = "walking" THEN "walking" ELSE "done"]
  /\ UNCHANGED <<last, prev>>

\* lines 119-125: the listed files are exhausted
Finish(c) ==
  /\ pc[c] = "walking"
  /\ loc[c].files = <<>>
  /\ loc' = [loc EXCEPT ![c].st = AfterLoop(@)]
  /\ pc' = [pc EXCEPT ![c] = "done"]
  /\ UNCHANGED <<fs, last, prev>>

\* the caller takes the outcome and may call again
Leave(c) ==
  /\ pc[c] = "done"
  /\ loc' = [loc EXCEPT ![c] = [st |-> NoCall, files |-> <<>>]]
  /\ pc' = [pc EXCEPT ![c] = "idle"]
  /\ UNCHANGED <<fs, last, prev>>

NextRace ==
  \/ \E c \in Callers, page \in 0..RacePage, data_dir \in DataDirs : Begin(c, page, data_dir)
  \/ \E c \in Callers : Step(c)
  \/ \E c \in Callers : Finish(c)
  \/ \E c \in Callers : Leave(c)

SpecRace == InitRace /\ [][NextRace]_vars

\* ---- helpers of the properties --------------------------------------------
Present(disk) == {f \in Names : disk[f].present}

Undecodable(disk) == {f \in Present(disk) : disk[f].err # "none"}

RECURSIVE Concat(_, _)
Concat(files, disk) ==
  IF files = <<>> THEN <<>>
  ELSE Records(Head(files), disk[Head(files)].n) \o Concat(Tail(files), disk)

\* the logical sequence: all segments in ascending-name order, oldest first
Logical(disk) == Concat(ListFiles(disk), disk)

Reverse(s) == [k \in 1..Len(s) |-> s[Len(s) - k + 1]]

Min(a, b) == IF a < b THEN a ELSE b

Ceil(n) == (n + page_size - 1) \div page_size

\* record a is older than record b
Before(a, b) == a[1] < b[1] \/ (a[1] = b[1] /\ a[2] < b[2])

Chronological(s) == \A i, j \in 1..Len(s) : i < j => Before(s[i], s[j])

\* what the caller observes of a call
Outcome(st) == [status |-> st.status, result |-> st.result, exc |-> st.exc]

\* the last completed call had a valid directory and a positive page
LastValid ==
  /\ last.st.status # "none"
  /\ last.st.data_dir = "valid"
  /\ last.st.page >= 1

\* the last call started from exactly one segment, decodable, of n >= 1 records
LastSingle ==
  /\ LastValid
  /\ Cardinality(Present(last.fs0)) = 1
  /\ Undecodable(last.fs0) = {}
  /\ Len(Logical(last.fs0)) >= 1

\* the p-th most recent block of history h, newest first
ExpectedPage(h, p) ==
  LET T == Len(h)
      lo == (p - 1) * page_size
      hi == Min(p * page_size, T)
  IN IF lo >= T THEN <<>> ELSE [k \in 1..(hi - lo) |-> h[T - lo - k + 1]]

\* ---- C1 -------------------------------------------------------------------
\* C1: on a catalog of one or more decodable segments, get_timeline(page=p)
\* returns the records at offsets [(p-1)*5, min(p*5, T)) from the newest end
\* of the logical sequence, newest first, and the empty list past the end.
C1_NewestBlock ==
  (LastValid /\ Present(last.fs0) # {} /\ Undecodable(last.fs0) = {})
    => /\ last.st.status = "returned"
       /\ last.st.result = ExpectedPage(Logical(last.fs0), last.st.page)

\* ---- C2 -------------------------------------------------------------------
\* C2: on one decodable segment of N >= 1 records, page 1 is the last
\* min(N,5) records reversed and page ceil(N/5) is the oldest remainder,
\* newest first.
C2_SingleSegment ==
  LastSingle =>
    LET h == Logical(last.fs0)
        N == Len(h)
        p == last.st.page
    IN /\ last.st.status = "returned"
       /\ p = 1 => last.st.result = Reverse(SubSeq(h, N - Min(N, page_size) + 1, N))
       /\ p = Ceil(N) => last.st.result = Reverse(SubSeq(h, 1, N - page_size * (p - 1)))

\* ---- C3 -------------------------------------------------------------------
\* C3: on one decodable segment of N >= 1 records, every page number above
\* ceil(N/5) returns the empty list.
C3_Exhaustion ==
  (LastSingle /\ last.st.page > Ceil(Len(Logical(last.fs0))))
    => (last.st.status = "returned" /\ last.st.result = <<>>)

\* ---- C4 -------------------------------------------------------------------
\* C4: a call that reaches a segment whose content fails to decode deletes
\* the segment, returns a page without raising, and the segment is absent
\* from the catalog afterwards.
C4_CorruptionRemoval ==
  LastValid =>
    \A f \in last.st.visited :
      f \in Undecodable(last.fs0)
        => (last.st.status = "returned" /\ ~fs[f].present)

\* ---- C5 -------------------------------------------------------------------
\* C5: a call with a non-positive page number is rejected (it raises) for
\* every data_dir argument; it never returns a page.
C5_InvalidPageRejected ==
  (last.st.status # "none" /\ last.st.page <= 0)
    => (last.st.status = "raised" /\ last.st.exc = "AssertionError")

\* ---- C6 -------------------------------------------------------------------
\* C6: a call that finds a listed segment deleted by a concurrent call still
\* returns a page: the missing file never escapes as an exception.
C6_DeletionRaceAbsorbed ==
  \A c \in Callers :
    loc[c].st.status = "raised" => loc[c].st.exc # "FileNotFoundError"

\* ---- C7 -------------------------------------------------------------------
\* C7: two consecutive get_timeline(page=1) calls on the same data_dir have
\* the same outcome, also when the first call deleted undecodable segments.
C7_Idempotence ==
  (last.st.status # "none" /\ last.st.page = 1 /\ prev.page = 1
     /\ prev.data_dir = last.st.data_dir)
    => Outcome(last.st) = Outcome(prev.st)

\* a second page 1 call returned records after the first one deleted a segment
C7_Witness ==
  /\ LastValid
  /\ last.st.page = 1
  /\ prev.page = 1
  /\ prev.data_dir = "valid"
  /\ prev.removed
  /\ last.st.status = "returned"
  /\ last.st.result # <<>>

\* ---- C8 -------------------------------------------------------------------
\* C8: every list get_timeline returns has at most page_size records.
C8_PageSizeBound ==
  last.st.status = "returned" => Len(last.st.result) <= page_size

\* a full page returned from a catalog of several segments, one undecodable
C8_Witness ==
  /\ LastValid
  /\ last.st.status = "returned"
  /\ Len(last.st.result) = page_size
  /\ Cardinality(Present(last.fs0)) >= 2
  /\ Undecodable(last.fs0) # {}

\* ---- C9 -------------------------------------------------------------------
\* C9: at every step of the walk the merged sequence is the carried
\* remainder followed by the current segment's records, hence chronological.
C9_MergeChronological ==
  \A c \in Callers : Chronological(loc[c].st.timeline_events)

\* ---- C10 ------------------------------------------------------------------
\* C10: with an undecodable segment at any position, get_timeline has the
\* outcome it has on the catalog without that segment.
C10_CorruptAsAbsent ==
  LastValid =>
    \A f \in Undecodable(last.fs0) :
      Outcome(last.st) =
        Outcome(get_timeline(last.st.page, "valid", [last.fs0 EXCEPT ![f] = Absent]).st)

====
